---------------------------- MODULE Spec2Model ----------------------------
(***************************************************************************)
(* A model of src/src/python.cc: the Triton python backend's model         *)
(* instance.  One instance is followed through its life: instance          *)
(* initialization (worker spawn and the bounded Init handshake), any       *)
(* number of Execute calls, and instance finalization (the destructor).    *)
(* The worker process, the operating system and the host's request /       *)
(* response API are the environment; their answers are drawn from small    *)
(* sets.                                                                   *)
(***************************************************************************)
EXTENDS Integers, Sequences, FiniteSets, TLC

(***************************************************************************)
(* Bounds of the model.                                                    *)
(***************************************************************************)
\* The largest request_count the host passes to one Execute call.
MaxBatch == 2

(***************************************************************************)
(* Program constants.                                                      *)
(***************************************************************************)
\* A mutation of conn_attempts: one attempt fewer.
conn_attempts_short == 5 - 1

\* constexpr uint8_t conn_attempts = 5;
conn_attempts == 5

\* constexpr int MAX_GRPC_MESSAGE_SIZE = INT32_MAX;
MAX_GRPC_MESSAGE_SIZE == 2147483647

(***************************************************************************)
(* Values of interpreter_pid_.  The field has no initializer, so it is     *)
(* indeterminate until fork() assigns it; fork() gives -1 on failure and   *)
(* the child's pid in the parent.                                          *)
(***************************************************************************)
PidUninit == "uninit"
PidForkFailed == "-1"
PidChild == "child"

\* Error messages the Init RPC's status may carry.
InitErrors == {"unavailable", "deadline"}

\* The message of the error CreatePythonInterpreter returns when mkdtemp fails.
TmpDirError == "Failed to create a temporary socket name"

VARIABLES
  pc,                \* where the host thread is in the instance's life: "init",
                     \* "connect", "connect_ret", "ready", "open_failed",
                     \* "encode", "decode", "exec_done", "crashed", "fini_rpc",
                     \* "fin_wait", "closed" or "killed"
  domain_socket_,    \* "" or the unix:// address of the channel
  interpreter_pid_,  \* PidUninit, PidForkFailed or PidChild
  connected_,        \* set once an Init RPC was acknowledged
  stub,              \* "none", "open" (NewStub) or "reset" (stub.reset())
  i,                 \* ConnectPythonInterpreter's loop counter
  status,            \* ConnectPythonInterpreter's grpc::Status: "", "ok" or a message
  connRet,           \* what ConnectPythonInterpreter returned: "pending", "ok" or a message
  openErr,           \* what ModelInstanceInitialize returned: "none" or a message
  initLog,           \* the outcomes of the Init RPCs of the running handshake
  sleeps,            \* the number of sleep_for calls of the running handshake
  proc,              \* the forked child: "none", "forked", "python", "hung",
                     \* "host_copy", "zombie" or "reaped"
  execFailed,        \* execvp returned -1 in the child
  diagLogged,        \* the child logged "Cannot run interpreter host"
  tmpDir,            \* the directory mkdtemp created exists
  socketFile,        \* <tmp_dir>/unix.socket exists
  finiSent,          \* the destructor's Fini RPC: "none", "pending", "ok" or "error"
  signalled,         \* the targets kill() was called on
  requests,          \* Execute: the host's requests (the batch)
  responses,         \* Execute: the responses vector, "open" or "null" per request
  r,                 \* Execute: the index of the running loop (from 1)
  wireReq,           \* Execute: the ExecuteRequest built so far
  execStatus,        \* Execute: the RPC's status: "none" (not issued), "ok" or a message
  wireResp,          \* Execute: the ExecuteResponse's responses
  sent,              \* Execute: per request, the final responses sent to the host
  attached,          \* Execute: per request, the outputs added to its response
  stats,             \* Execute: per request, the success flags reported
  released,          \* Execute: per request, the number of RequestRelease calls
  ubLog              \* Execute: the undefined operations the call performed

instVars == <<domain_socket_, interpreter_pid_, connected_, stub, openErr>>
hsVars == <<i, status, connRet, initLog, sleeps>>
lifeVars == <<pc, instVars, hsVars>>
osVars == <<proc, execFailed, diagLogged, tmpDir, socketFile>>
finVars == <<finiSent, signalled>>
execVars == <<requests, responses, r, wireReq, execStatus, wireResp, sent,
              attached, stats, released, ubLog>>
vars == <<lifeVars, osVars, finVars, execVars>>

(***************************************************************************)
(* The state after the backend and the model are loaded and before         *)
(* TRITONBACKEND_ModelInstanceInitialize is called.                        *)
(***************************************************************************)
Init ==
  /\ pc = "init"
  /\ domain_socket_ = ""
  /\ interpreter_pid_ = PidUninit
  /\ connected_ = FALSE
  /\ stub = "none"
  /\ i = 0
  /\ status = ""
  /\ connRet = "pending"
  /\ openErr = "none"
  /\ initLog = <<>>
  /\ sleeps = 0
  /\ proc = "none"
  /\ execFailed = FALSE
  /\ diagLogged = FALSE
  /\ tmpDir = FALSE
  /\ socketFile = FALSE
  /\ finiSent = "none"
  /\ signalled = {}
  /\ requests = <<>>
  /\ responses = <<>>
  /\ r = 0
  /\ wireReq = <<>>
  /\ execStatus = "none"
  /\ wireResp = <<>>
  /\ sent = <<>>
  /\ attached = <<>>
  /\ stats = <<>>
  /\ released = <<>>
  /\ ubLog = {}

(***************************************************************************)
(* TRITONBACKEND_ModelInstanceInitialize up to the first Init RPC:         *)
(* ModelInstanceState::Create, then CreatePythonInterpreter (mkdtemp,      *)
(* fork) and, in the parent, the head of ConnectPythonInterpreter          *)
(* (channel and stub creation).  mkdtemp and fork may fail.  A failed fork *)
(* leaves -1 in interpreter_pid_, which is not 0, so the parent branch     *)
(* runs all the same.                                                      *)
(***************************************************************************)
ModelInstanceInitialize ==
  /\ pc = "init"
  /\ \E mkdtempOk \in BOOLEAN, forkOk \in BOOLEAN :
       IF ~mkdtempOk
       THEN /\ pc' = "open_failed"
            /\ openErr' = TmpDirError
            /\ UNCHANGED <<domain_socket_, interpreter_pid_, stub, proc, tmpDir>>
       ELSE /\ tmpDir' = TRUE
            /\ domain_socket_' = "unix:///tmp/XXXXXX/unix.socket"
            /\ interpreter_pid_' = IF forkOk THEN PidChild ELSE PidForkFailed
            /\ proc' = IF forkOk THEN "forked" ELSE "none"
            /\ stub' = "open"
            /\ pc' = "connect"
            /\ UNCHANGED openErr
  /\ UNCHANGED <<connected_, i, status, connRet, initLog, sleeps>>
  /\ UNCHANGED <<execFailed, diagLogged, socketFile>>
  /\ UNCHANGED <<finVars, execVars>>

(***************************************************************************)
(* The child after fork(): execvp replaces the process image by the python *)
(* interpreter running startup.py.                                         *)
(***************************************************************************)
ChildExec ==
  /\ proc = "forked"
  /\ proc' = "python"
  /\ UNCHANGED <<execFailed, diagLogged, tmpDir, socketFile>>
  /\ UNCHANGED <<lifeVars, finVars, execVars>>

(***************************************************************************)
(* The child when execvp returns -1: it logs the diagnostic and then       *)
(* RETURNS a TRITONSERVER_Error from CreatePythonInterpreter, so the child *)
(* goes on as a copy of the host process, inside                           *)
(* TRITONBACKEND_ModelInstanceInitialize's caller.                         *)
(***************************************************************************)
ChildExecFails ==
  /\ proc = "forked"
  /\ execFailed' = TRUE
  /\ diagLogged' = TRUE
  /\ proc' = "host_copy"
  /\ UNCHANGED <<tmpDir, socketFile>>
  /\ UNCHANGED <<lifeVars, finVars, execVars>>

(***************************************************************************)
(* The worker (startup.py) binds the unix socket and starts serving.       *)
(***************************************************************************)
WorkerListen ==
  /\ proc = "python"
  /\ tmpDir
  /\ ~socketFile
  /\ socketFile' = TRUE
  /\ UNCHANGED <<proc, execFailed, diagLogged, tmpDir>>
  /\ UNCHANGED <<lifeVars, finVars, execVars>>

\* The worker answers RPCs.
WorkerServing == proc = "python" /\ socketFile

(***************************************************************************)
(* The worker stops answering: the model's code blocks or deadlocks.  The  *)
(* process lives on and keeps its connections open.                        *)
(***************************************************************************)
WorkerHangs ==
  /\ proc = "python"
  /\ socketFile
  /\ proc' = "hung"
  /\ UNCHANGED <<execFailed, diagLogged, tmpDir, socketFile>>
  /\ UNCHANGED <<lifeVars, finVars, execVars>>

(***************************************************************************)
(* The child process ends: the worker crashes or exits, or the process     *)
(* dies of the SIGTERM the destructor sent.  It stays a zombie until       *)
(* waitpid reaps it.                                                       *)
(***************************************************************************)
ChildExits ==
  /\ proc \in {"forked", "python", "hung", "host_copy"}
  /\ proc' = "zombie"
  /\ UNCHANGED <<execFailed, diagLogged, tmpDir, socketFile>>
  /\ UNCHANGED <<lifeVars, finVars, execVars>>

(***************************************************************************)
(* One iteration of ConnectPythonInterpreter's loop: the Init RPC, then    *)
(* either connected_ = true and return nullptr, or sleep_for(grpc_timeout) *)
(* and ++i.  When the loop ends the function returns an error carrying     *)
(* status.error_message().  Only a serving worker can acknowledge.         *)
(***************************************************************************)
InitOutcomes == InitErrors \cup (IF WorkerServing THEN {"ok"} ELSE {})

\* A mutation of ConnectAttempt: an acknowledged Init does not leave the loop.
ConnectAttempt_NoReturn ==
  /\ pc = "connect"
  /\ i < conn_attempts
  /\ \E res \in InitOutcomes :
       /\ initLog' = Append(initLog, res)
       /\ status' = res
       /\ connected_' = (connected_ \/ res = "ok")
       /\ sleeps' = IF res = "ok" THEN sleeps ELSE sleeps + 1
       /\ i' = i + 1
       /\ IF i + 1 < conn_attempts
          THEN UNCHANGED <<pc, connRet>>
          ELSE pc' = "connect_ret" /\ connRet' = res
  /\ UNCHANGED <<domain_socket_, interpreter_pid_, stub, openErr>>
  /\ UNCHANGED <<osVars, finVars, execVars>>

\* A mutation of ConnectAttempt: no sleep after the last failed attempt.
ConnectAttempt_NoLastSleep ==
  /\ pc = "connect"
  /\ i < conn_attempts
  /\ \E res \in InitOutcomes :
       /\ initLog' = Append(initLog, res)
       /\ status' = res
       /\ IF res = "ok"
          THEN /\ connected_' = TRUE
               /\ pc' = "connect_ret"
               /\ connRet' = "ok"
               /\ UNCHANGED <<i, sleeps>>
          ELSE /\ i' = i + 1
               /\ UNCHANGED connected_
               /\ IF i + 1 < conn_attempts
                  THEN sleeps' = sleeps + 1 /\ UNCHANGED <<pc, connRet>>
                  ELSE /\ pc' = "connect_ret"
                       /\ connRet' = status'
                       /\ UNCHANGED sleeps
  /\ UNCHANGED <<domain_socket_, interpreter_pid_, stub, openErr>>
  /\ UNCHANGED <<osVars, finVars, execVars>>

ConnectAttempt ==
  /\ pc = "connect"
  /\ i < conn_attempts
  /\ \E res \in InitOutcomes :
       /\ initLog' = Append(initLog, res)
       /\ status' = res
       /\ IF res = "ok"
          THEN /\ connected_' = TRUE
               /\ pc' = "connect_ret"
               /\ connRet' = "ok"
               /\ UNCHANGED <<i, sleeps>>
          ELSE /\ sleeps' = sleeps + 1
               /\ i' = i + 1
               /\ UNCHANGED connected_
               /\ IF i + 1 < conn_attempts
                  THEN UNCHANGED <<pc, connRet>>
                  ELSE pc' = "connect_ret" /\ connRet' = status'
  /\ UNCHANGED <<domain_socket_, interpreter_pid_, stub, openErr>>
  /\ UNCHANGED <<osVars, finVars, execVars>>

(***************************************************************************)
(* ConnectPythonInterpreter has returned: CreatePythonInterpreter passes   *)
(* the result on (RETURN_IF_ERROR) and ModelInstanceInitialize returns it  *)
(* to the host (RETURN_IF_ERROR again), with nothing done in between.  The *)
(* locals of the handshake go out of scope.                                *)
(***************************************************************************)
\* A mutation of ModelInstanceInitializeReturn: the handshake's error is
\* dropped and the instance is handed to the host as initialized.
ModelInstanceInitializeReturn_IgnoresError ==
  /\ pc = "connect_ret"
  /\ pc' = "ready"
  /\ i' = 0
  /\ status' = ""
  /\ connRet' = "pending"
  /\ initLog' = <<>>
  /\ sleeps' = 0
  /\ UNCHANGED <<domain_socket_, interpreter_pid_, connected_, stub, openErr>>
  /\ UNCHANGED <<osVars, finVars, execVars>>

ModelInstanceInitializeReturn ==
  /\ pc = "connect_ret"
  /\ IF connRet = "ok"
     THEN pc' = "ready" /\ UNCHANGED openErr
     ELSE pc' = "open_failed" /\ openErr' = connRet
  /\ i' = 0
  /\ status' = ""
  /\ connRet' = "pending"
  /\ initLog' = <<>>
  /\ sleeps' = 0
  /\ UNCHANGED <<domain_socket_, interpreter_pid_, connected_, stub>>
  /\ UNCHANGED <<osVars, finVars, execVars>>

(***************************************************************************)
(* The destructor, run by TRITONBACKEND_ModelInstanceFinalize.  Its steps  *)
(* after the Fini RPC: stub.reset() and kill(interpreter_pid_, SIGTERM),   *)
(* which leave the host at the blocking waitpid.  kill(-1) signals every   *)
(* process the caller may signal; with interpreter_pid_ never assigned the *)
(* target is whatever the field holds: no process, a process that is not   *)
(* the host's worker, the host's own process group (pid 0) or every        *)
(* process (pid -1).  A signal to the host's own group is delivered to the *)
(* host as well, which dies of it unless it handles SIGTERM.               *)
(***************************************************************************)
KillTargets ==
  IF interpreter_pid_ = PidChild THEN {"child"}
  ELSE IF interpreter_pid_ = PidForkFailed THEN {"everyone"}
  ELSE {"nobody", "group", "everyone", "other"}

ResetAndKill ==
  /\ stub' = "reset"
  /\ \E target \in KillTargets :
       /\ signalled' = signalled \cup {target}
       /\ pc' \in (IF target = "group" THEN {"fin_wait", "killed"}
                   ELSE {"fin_wait"})

(***************************************************************************)
(* The head of the destructor.  When connected_ the Fini RPC is issued,    *)
(* with a ClientContext that sets no deadline, and the host waits for its  *)
(* status; otherwise the destructor goes straight on to stub.reset() and   *)
(* kill().                                                                 *)
(***************************************************************************)
ModelInstanceFinalize ==
  /\ pc \in {"ready", "open_failed"}
  /\ IF connected_
     THEN /\ finiSent' = "pending"
          /\ pc' = "fini_rpc"
          /\ UNCHANGED <<stub, signalled>>
     ELSE /\ ResetAndKill
          /\ UNCHANGED finiSent
  /\ UNCHANGED <<domain_socket_, interpreter_pid_, connected_, i, status,
                 connRet, openErr, initLog, sleeps>>
  /\ UNCHANGED <<osVars, execVars>>

(***************************************************************************)
(* The Fini RPC returns: acknowledged by a serving worker, or failed (the  *)
(* worker answers with an error, or is gone), which is only logged.  While *)
(* the worker is alive and not answering, the call does not return.  The   *)
(* destructor then goes on to stub.reset() and kill().                     *)
(***************************************************************************)
FiniOutcomes ==
  IF proc = "hung" THEN {}
  ELSE {"error"} \cup (IF WorkerServing THEN {"ok"} ELSE {})

\* A mutation of FiniReturn: a Fini that fails ends the teardown of the
\* channel and the child, and the destructor goes on to the wait.
FiniReturn_StopsOnError ==
  /\ pc = "fini_rpc"
  /\ \E ack \in FiniOutcomes :
       /\ finiSent' = ack
       /\ IF ack = "ok" THEN ResetAndKill
          ELSE pc' = "fin_wait" /\ UNCHANGED <<stub, signalled>>
  /\ UNCHANGED <<domain_socket_, interpreter_pid_, connected_, i, status,
                 connRet, openErr, initLog, sleeps>>
  /\ UNCHANGED <<osVars, execVars>>

FiniReturn ==
  /\ pc = "fini_rpc"
  /\ \E ack \in FiniOutcomes : finiSent' = ack
  /\ ResetAndKill
  /\ UNCHANGED <<domain_socket_, interpreter_pid_, connected_, i, status,
                 connRet, openErr, initLog, sleeps>>
  /\ UNCHANGED <<osVars, execVars>>

(***************************************************************************)
(* The rest of the destructor: waitpid(interpreter_pid_, &status, 0)       *)
(* returns once the child has ended, and at once (ECHILD, ignored) when    *)
(* the pid names no child of the host that is still to be reaped; then the *)
(* socket file is unlinked when domain_socket_ is set.  The directory      *)
(* mkdtemp created is not removed.                                         *)
(***************************************************************************)
WaitpidReturns ==
  (interpreter_pid_ = PidChild /\ proc \notin {"none", "reaped"}) => proc = "zombie"

\* A mutation of FinalizeReap: the wait is for the child's end to come, and
\* a child that ended before is not reaped.
FinalizeReap_AwaitExit ==
  /\ pc = "fin_wait"
  /\ proc \notin {"forked", "python", "hung", "host_copy"}
  /\ socketFile' = IF domain_socket_ # "" THEN FALSE ELSE socketFile
  /\ pc' = "closed"
  /\ UNCHANGED <<proc, execFailed, diagLogged, tmpDir>>
  /\ UNCHANGED <<domain_socket_, interpreter_pid_, connected_, stub, i, status,
                 connRet, openErr, initLog, sleeps>>
  /\ UNCHANGED <<finVars, execVars>>

FinalizeReap ==
  /\ pc = "fin_wait"
  /\ WaitpidReturns
  /\ proc' = IF interpreter_pid_ = PidChild /\ proc = "zombie" THEN "reaped"
             ELSE proc
  /\ socketFile' = IF domain_socket_ # "" THEN FALSE ELSE socketFile
  /\ pc' = "closed"
  /\ UNCHANGED <<execFailed, diagLogged, tmpDir>>
  /\ UNCHANGED <<domain_socket_, interpreter_pid_, connected_, stub, i, status,
                 connRet, openErr, initLog, sleeps>>
  /\ UNCHANGED <<finVars, execVars>>

(***************************************************************************)
(* Execute: the data.                                                      *)
(***************************************************************************)
\* The tensors the worker returns: name, element type, shape, raw bytes.
TensorA == [name |-> "a", dtype |-> "UINT8", dims |-> <<2>>, raw |-> <<1, 2>>]
TensorB == [name |-> "b", dtype |-> "BYTES", dims |-> <<1>>, raw |-> <<7, 8, 9>>]

\* A tensor whose raw_data is longer than its type and shape say: one UINT8
\* element, two bytes.
TensorLong == [name |-> "a", dtype |-> "UINT8", dims |-> <<1>>, raw |-> <<1, 2>>]

\* What an out-of-range read of a repeated field yields when it does not
\* crash: an element that was never set.
GarbageTensor == [name |-> "", dtype |-> "INVALID", dims |-> <<>>, raw |-> <<>>]

\* The output lists of a successful response item.
WireOutputLists ==
  {<<TensorA, TensorB>>, <<TensorB, TensorA>>, <<TensorA>>, <<TensorLong>>}

\* The InferenceResponse items the worker may return.
WireItems ==
  {[failed |-> TRUE, msg |-> <<"model error">>, outputs |-> <<>>]}
  \cup {[failed |-> FALSE, msg |-> <<>>, outputs |-> l] : l \in WireOutputLists}

\* What an out-of-range read of execute_response.responses(r) may yield.
GarbageItems ==
  {[failed |-> TRUE, msg |-> <<>>, outputs |-> <<>>],
   [failed |-> FALSE, msg |-> <<>>, outputs |-> <<>>]}

(***************************************************************************)
(* uint64_t values (input_byte_size) are sequences of four 16-bit limbs,   *)
(* the most significant first.  ToUint64 is the conversion the usual       *)
(* arithmetic conversions apply to an int operand of a comparison with a   *)
(* uint64_t: the value modulo 2^64.                                        *)
(***************************************************************************)
Limb == 2^16

ToUint64(n) ==
  IF n >= 0
  THEN <<0, 0, n \div Limb, n % Limb>>
  ELSE <<Limb - 1, Limb - 1,
         (Limb - 1) - ((-(n + 1)) \div Limb),
         (Limb - 1) - ((-(n + 1)) % Limb)>>

\* a >= b on uint64_t.
RECURSIVE GeUint64(_, _, _)
GeUint64(a, b, k) ==
  IF k > 4 THEN TRUE
  ELSE IF a[k] # b[k] THEN a[k] > b[k]
  ELSE GeUint64(a, b, k + 1)

\* The input sizes of the requests of a batch: 4 bytes, and INT32_MAX bytes.
SmallInput == <<0, 0, 0, 4>>
LimitInput == <<0, 0, 32767, 65535>>
NoInput == <<0, 0, 0, 0>>

\* The host's requests: the fate of the input lookup, the input's byte
\* size, the requested output names, and the output names for which the
\* host hands out a GPU buffer.  No output is handled once a request has
\* failed, so the failing requests come with one list of names and no
\* GPU buffer.
Requests ==
  [lookup : {"ok"}, input_byte_size : {SmallInput},
   outs : {<<"a">>, <<"a", "b">>}, gpu : {{}, {"a"}}]
  \cup [lookup : {"ok"}, input_byte_size : {LimitInput},
        outs : {<<"a", "b">>}, gpu : {{}}]
  \cup [lookup : {"error"}, input_byte_size : {NoInput},
        outs : {<<"a", "b">>}, gpu : {{}}]

\* Error messages of a failed Execute RPC.
ExecErrors == {"socket closed"}

\* The outcomes of an undefined operation: the process dies, or it goes on
\* with whatever the memory held.
UBOutcomes == {"crash", "garbage"}

\* A final response: through the slot of the responses vector or through a
\* response made for the purpose, with an error code ("OK" for none).
Send(via, code, msg) == [via |-> via, code |-> code, msg |-> msg]

ErrLookup == <<"input not found">>
ErrOversize ==
  <<"Python backend does not support input size larger than 2GBs, consider parititioning your input into multiple inputs.">>
ErrGpu == <<"can't create response in GPU memory.">>
ErrTransport(m) == <<"GRPC Execute Failed, message: ", m>>

\* common: GetByteSize(dtype, dims): element size times the element count.
ElementSize(dtype) ==
  CASE dtype = "UINT8" -> 1
    [] dtype = "INT16" -> 2
    [] OTHER -> 0

RECURSIVE ElementCount(_)
ElementCount(dims) ==
  IF dims = <<>> THEN 1 ELSE Head(dims) * ElementCount(Tail(dims))

GetByteSize(dtype, dims) == ElementSize(dtype) * ElementCount(dims)

\* A mutation of FindByName: the comparison of the names is lost, and the
\* first tensor is taken.
FindByName_First(outputs, name, k) ==
  IF k > Len(outputs) THEN 0 ELSE k

\* std::find_if over the response's outputs: the first index whose tensor
\* has the name, 0 for end().
RECURSIVE FindByName(_, _, _)
FindByName(outputs, name, k) ==
  IF k > Len(outputs) THEN 0
  ELSE IF outputs[k].name = name THEN k
  ELSE FindByName(outputs, name, k + 1)

\* A mutation of InputTooLarge: the size is narrowed to int before the
\* comparison (its low 32 bits, read as a two's complement number).
InputTooLarge_Narrowed(size) ==
  LET narrowed == IF size[3] < Limb \div 2 THEN size[3] * Limb + size[4]
                  ELSE -((Limb - 1 - size[3]) * Limb + (Limb - 1 - size[4])) - 1
  IN narrowed >= MAX_GRPC_MESSAGE_SIZE

\* The check of GetInputTensor: input_byte_size is a uint64_t and
\* MAX_GRPC_MESSAGE_SIZE an int, so the comparison is made in uint64_t.
InputTooLarge(size) == GeUint64(size, ToUint64(MAX_GRPC_MESSAGE_SIZE), 1)

(***************************************************************************)
(* TRITONBACKEND_ModelInstanceExecute, the head: one response object per   *)
(* request.                                                                *)
(***************************************************************************)
ModelInstanceExecute ==
  /\ pc = "ready"
  /\ \E n \in 0..MaxBatch : \E reqs \in [1..n -> Requests] :
       /\ requests' = reqs
       /\ responses' = [k \in 1..n |-> "open"]
       /\ sent' = [k \in 1..n |-> <<>>]
       /\ attached' = [k \in 1..n |-> <<>>]
       /\ stats' = [k \in 1..n |-> <<>>]
       /\ released' = [k \in 1..n |-> 0]
  /\ r' = 1
  /\ pc' = "encode"
  /\ UNCHANGED <<wireReq, execStatus, wireResp, ubLog>>
  /\ UNCHANGED <<instVars, hsVars, osVars, finVars>>

(***************************************************************************)
(* One iteration of the loop that builds the ExecuteRequest.  The request  *)
(* has one input.  GetInputTensor answers a failed input lookup itself     *)
(* with a response made for the purpose (RESPOND_AND_RETURN_IF_ERROR) and  *)
(* returns the error, which GUARDED_RESPOND_IF_ERROR sends again through   *)
(* the slot before clearing it; an input of MAX_GRPC_MESSAGE_SIZE bytes or *)
(* more is answered through the slot.  With the slot cleared the guards of *)
(* RequestOutputName and RequestId skip the calls, and the pointers they   *)
(* would have set are passed on uninitialized.                             *)
(***************************************************************************)
InputSends(req) ==
  IF req.lookup = "error"
  THEN <<Send("fresh", "HOST", ErrLookup), Send("slot", "HOST", ErrLookup)>>
  ELSE IF InputTooLarge(req.input_byte_size)
  THEN <<Send("slot", "UNSUPPORTED", ErrOversize)>>
  ELSE <<>>

EncodeRequest ==
  /\ pc = "encode"
  /\ r <= Len(requests)
  /\ LET req == requests[r]
         sends == InputSends(req)
         failed == sends # <<>>
     IN /\ sent' = [sent EXCEPT ![r] = @ \o sends]
        /\ responses' = [responses EXCEPT ![r] = IF failed THEN "null" ELSE @]
        /\ ubLog' = IF failed THEN ubLog \cup {"uninit_name"} ELSE ubLog
        /\ \E ub \in UBOutcomes :
             IF failed /\ ub = "crash"
             THEN pc' = "crashed" /\ UNCHANGED <<r, wireReq>>
             ELSE /\ wireReq' = Append(wireReq,
                       [input |-> IF failed THEN "empty" ELSE "filled",
                        names |-> IF failed
                                 THEN [k \in 1..Len(req.outs) |-> "garbage"]
                                 ELSE req.outs])
                  /\ r' = r + 1
                  /\ UNCHANGED pc
  /\ UNCHANGED <<requests, execStatus, wireResp, attached, stats, released>>
  /\ UNCHANGED <<instVars, hsVars, osVars, finVars>>

(***************************************************************************)
(* The round trip: stub->Execute(execute_request, &execute_response).  The *)
(* worker returns what it likes: the list of responses need not be as long *)
(* as the list of requests.  When the status is not ok, every response     *)
(* still held is sent the transport error and cleared, every request's     *)
(* statistics are reported as failed, every request is released, and       *)
(* Execute returns.                                                        *)
(***************************************************************************)
\* A mutation of TransportFailSent: the requests already answered while the
\* ExecuteRequest was built are answered again.
TransportFailSent_NoSkip(m) ==
  [k \in 1..Len(requests) |->
     Append(sent[k], Send("slot", "INTERNAL", ErrTransport(m)))]

TransportFailSent(m) ==
  [k \in 1..Len(requests) |->
     IF responses[k] = "null" THEN sent[k]
     ELSE Append(sent[k], Send("slot", "INTERNAL", ErrTransport(m)))]

\* A mutation of ExecuteRpc: a failed round trip gives the channel up.
ExecuteRpc_DropsChannel ==
  /\ pc = "encode"
  /\ r > Len(requests)
  /\ \/ /\ WorkerServing
        /\ execStatus' = "ok"
        /\ \E len \in 0..MaxBatch : \E resp \in [1..len -> WireItems] :
             wireResp' = resp
        /\ r' = 1
        /\ pc' = "decode"
        /\ UNCHANGED <<responses, sent, stats, released, stub, connected_>>
     \/ /\ \E m \in ExecErrors :
             /\ execStatus' = m
             /\ sent' = TransportFailSent(m)
        /\ responses' = [k \in 1..Len(requests) |-> "null"]
        /\ stats' = [k \in 1..Len(requests) |-> Append(stats[k], FALSE)]
        /\ released' = [k \in 1..Len(requests) |-> released[k] + 1]
        /\ pc' = "exec_done"
        /\ stub' = "reset"
        /\ connected_' = FALSE
        /\ UNCHANGED <<r, wireResp>>
  /\ UNCHANGED <<requests, wireReq, attached, ubLog>>
  /\ UNCHANGED <<domain_socket_, interpreter_pid_, openErr>>
  /\ UNCHANGED <<hsVars, osVars, finVars>>

ExecuteRpc ==
  /\ pc = "encode"
  /\ r > Len(requests)
  /\ \/ /\ WorkerServing
        /\ execStatus' = "ok"
        /\ \E len \in 0..MaxBatch : \E resp \in [1..len -> WireItems] :
             wireResp' = resp
        /\ r' = 1
        /\ pc' = "decode"
        /\ UNCHANGED <<responses, sent, stats, released>>
     \/ /\ \E m \in ExecErrors :
             /\ execStatus' = m
             /\ sent' = TransportFailSent(m)
        /\ responses' = [k \in 1..Len(requests) |-> "null"]
        /\ stats' = [k \in 1..Len(requests) |-> Append(stats[k], FALSE)]
        /\ released' = [k \in 1..Len(requests) |-> released[k] + 1]
        /\ pc' = "exec_done"
        /\ UNCHANGED <<r, wireResp>>
  /\ UNCHANGED <<requests, wireReq, attached, ubLog>>
  /\ UNCHANGED <<instVars, hsVars, osVars, finVars>>

(***************************************************************************)
(* One iteration of the loop over a successful item's outputs (lines 796   *)
(* to 873), on the accumulator acc = [slot, sent, attached, ub, crashed].  *)
(* The tensor is read at position j of the worker's outputs, whatever the  *)
(* requested names are; the read is out of range when the worker returned  *)
(* fewer outputs than were requested.                                      *)
(***************************************************************************)
\* A mutation of GpuReject: the output is skipped and the item not failed.
GpuReject_SkipOnly(acc) == acc

\* GUARDED_RESPOND_IF_ERROR with "can't create response in GPU memory.".
GpuReject(acc) ==
  [acc EXCEPT !.sent = Append(@, Send("slot", "UNSUPPORTED", ErrGpu)),
              !.slot = "null"]

OutputStep(j, acc, req, item, ub) ==
  LET oob == j > Len(item.outputs)
      t == IF oob THEN GarbageTensor ELSE item.outputs[j]
      acc0 == IF oob THEN [acc EXCEPT !.ub = @ \cup {"outputs_oob"}] ELSE acc
  IN IF oob /\ ub = "crash" THEN [acc0 EXCEPT !.crashed = TRUE]
     ELSE IF acc0.slot = "null" THEN acc0
     ELSE
       LET size == IF t.dtype = "BYTES" THEN Len(t.raw)
                   ELSE GetByteSize(t.dtype, t.dims)
           mem == IF t.name \in req.gpu THEN "GPU" ELSE "CPU"
           out == [name |-> t.name, dtype |-> t.dtype, dims |-> t.dims,
                   mem |-> mem, size |-> size, data |-> <<>>]
           found == FindByName(item.outputs, t.name, 1)
       IN IF mem = "GPU"
          THEN GpuReject([acc0 EXCEPT !.attached = Append(@, out)])
          ELSE IF found = 0
          THEN [acc0 EXCEPT !.attached = Append(@, out)]
          ELSE
            LET raw == item.outputs[found].raw
                over == Len(raw) > size
                acc1 == [acc0 EXCEPT
                           !.attached = Append(@, [out EXCEPT !.data = raw]),
                           !.ub = IF over THEN @ \cup {"copy_overflow"} ELSE @]
            IN IF over /\ ub = "crash" THEN [acc1 EXCEPT !.crashed = TRUE]
               ELSE acc1

RECURSIVE OutputLoop(_, _, _, _, _, _)
OutputLoop(j, count, acc, req, item, ub) ==
  IF j > count \/ acc.crashed THEN acc
  ELSE OutputLoop(j + 1, count, OutputStep(j, acc, req, item, ub), req, item, ub)

(***************************************************************************)
(* One iteration of the loop over the responses (lines 769 to 888) for     *)
(* request k, given the item read at position k.  A failed item is sent    *)
(* through responses[k] without a look at whether the slot still holds a   *)
(* response.  requested_output_count stays 0 when the slot is cleared.     *)
(***************************************************************************)
DecodeItem(acc, req, item, ub) ==
  IF item.failed
  THEN IF acc.slot = "null"
       THEN [acc EXCEPT !.ub = @ \cup {"null_send"}, !.crashed = (ub = "crash")]
       ELSE [acc EXCEPT !.sent = Append(@, Send("slot", "INTERNAL", item.msg)),
                        !.slot = "null"]
  ELSE LET count == IF acc.slot = "open" THEN Len(req.outs) ELSE 0
           after == OutputLoop(1, count, acc, req, item, ub)
       IN IF after.crashed \/ after.slot = "null" THEN after
          ELSE [after EXCEPT !.sent = Append(@, Send("slot", "OK", <<>>))]

DecodeResponse ==
  /\ pc = "decode"
  /\ r <= Len(requests)
  /\ \E ub \in UBOutcomes : \E g \in GarbageItems :
       LET oob == r > Len(wireResp)
           item == IF oob THEN g ELSE wireResp[r]
           acc == [slot |-> responses[r], sent |-> sent[r],
                   attached |-> attached[r],
                   ub |-> IF oob THEN {"responses_oob"} ELSE {},
                   crashed |-> FALSE]
           res == IF oob /\ ub = "crash" THEN [acc EXCEPT !.crashed = TRUE]
                  ELSE DecodeItem(acc, requests[r], item, ub)
       IN /\ responses' = [responses EXCEPT ![r] = res.slot]
          /\ sent' = [sent EXCEPT ![r] = res.sent]
          /\ attached' = [attached EXCEPT ![r] = res.attached]
          /\ ubLog' = ubLog \cup res.ub
          /\ IF res.crashed THEN pc' = "crashed" /\ UNCHANGED r
             ELSE r' = r + 1 /\ UNCHANGED pc
  /\ UNCHANGED <<requests, wireReq, execStatus, wireResp, stats, released>>
  /\ UNCHANGED <<instVars, hsVars, osVars, finVars>>

(***************************************************************************)
(* The tail of Execute: per request the statistics, with success when the  *)
(* slot still holds a response, and the release.                           *)
(***************************************************************************)
\* A mutation of ReportAndRelease: every request is reported as a success.
ReportAndRelease_AlwaysSuccess ==
  /\ pc = "decode"
  /\ r > Len(requests)
  /\ stats' = [k \in 1..Len(requests) |-> Append(stats[k], TRUE)]
  /\ released' = [k \in 1..Len(requests) |-> released[k] + 1]
  /\ pc' = "exec_done"
  /\ UNCHANGED <<requests, responses, r, wireReq, execStatus, wireResp, sent,
                 attached, ubLog>>
  /\ UNCHANGED <<instVars, hsVars, osVars, finVars>>

ReportAndRelease ==
  /\ pc = "decode"
  /\ r > Len(requests)
  /\ stats' = [k \in 1..Len(requests) |-> Append(stats[k], responses[k] # "null")]
  /\ released' = [k \in 1..Len(requests) |-> released[k] + 1]
  /\ pc' = "exec_done"
  /\ UNCHANGED <<requests, responses, r, wireReq, execStatus, wireResp, sent,
                 attached, ubLog>>
  /\ UNCHANGED <<instVars, hsVars, osVars, finVars>>

(***************************************************************************)
(* Execute returns nullptr to the host; its locals go out of scope.        *)
(***************************************************************************)
ModelInstanceExecuteReturn ==
  /\ pc = "exec_done"
  /\ pc' = "ready"
  /\ requests' = <<>>
  /\ responses' = <<>>
  /\ r' = 0
  /\ wireReq' = <<>>
  /\ execStatus' = "none"
  /\ wireResp' = <<>>
  /\ sent' = <<>>
  /\ attached' = <<>>
  /\ stats' = <<>>
  /\ released' = <<>>
  /\ ubLog' = {}
  /\ UNCHANGED <<instVars, hsVars, osVars, finVars>>

Next ==
  \/ ModelInstanceInitialize
  \/ ChildExec
  \/ ChildExecFails
  \/ WorkerListen
  \/ WorkerHangs
  \/ ChildExits
  \/ ConnectAttempt
  \/ ModelInstanceInitializeReturn
  \/ ModelInstanceExecute
  \/ EncodeRequest
  \/ ExecuteRpc
  \/ DecodeResponse
  \/ ReportAndRelease
  \/ ModelInstanceExecuteReturn
  \/ ModelInstanceFinalize
  \/ FiniReturn
  \/ FinalizeReap

Spec == Init /\ [][Next]_vars

(***************************************************************************)
(* The behaviours in which the host thread, once inside the destructor,    *)
(* goes on whenever the call it is blocked in can return, and in which a   *)
(* child that was sent SIGTERM ends.                                       *)
(***************************************************************************)
SignalledChildExits == "child" \in signalled /\ ChildExits

LiveSpec ==
  /\ Spec
  /\ WF_vars(FiniReturn)
  /\ WF_vars(FinalizeReap)
  /\ WF_vars(SignalledChildExits)

(***************************************************************************)
(* The input-size check on its own: an Execute call on a Ready instance    *)
(* with one request, whose input_byte_size is any uint64_t made of the     *)
(* limbs 0, 1, 2^15 - 1, 2^15, 2^16 - 2 and 2^16 - 1 (the sizes around     *)
(* 2^31 - 1, 2^32, 2^48 and 2^64 - 1 among them), taken at the point where *)
(* the loop that builds the ExecuteRequest starts.                         *)
(***************************************************************************)
SizeLimbs == {0, 1, 32767, 32768, 65534, 65535}

SizeInputs == [1..4 -> SizeLimbs]

SizeInit ==
  /\ pc = "encode"
  /\ domain_socket_ = "unix:///tmp/XXXXXX/unix.socket"
  /\ interpreter_pid_ = PidChild
  /\ connected_ = TRUE
  /\ stub = "open"
  /\ i = 0
  /\ status = ""
  /\ connRet = "pending"
  /\ openErr = "none"
  /\ initLog = <<>>
  /\ sleeps = 0
  /\ proc = "python"
  /\ execFailed = FALSE
  /\ diagLogged = FALSE
  /\ tmpDir = TRUE
  /\ socketFile = TRUE
  /\ finiSent = "none"
  /\ signalled = {}
  /\ \E size \in SizeInputs :
       requests = <<[lookup |-> "ok", input_byte_size |-> size,
                     outs |-> <<"a">>, gpu |-> {}]>>
  /\ responses = <<"open">>
  /\ r = 1
  /\ wireReq = <<>>
  /\ execStatus = "none"
  /\ wireResp = <<>>
  /\ sent = << <<>> >>
  /\ attached = << <<>> >>
  /\ stats = << <<>> >>
  /\ released = <<0>>
  /\ ubLog = {}

SizeNext == EncodeRequest

SizeSpec == SizeInit /\ [][SizeNext]_vars

(***************************************************************************)
(* Vocabulary of the properties.                                           *)
(***************************************************************************)
\* The instance accepts batches: the handshake succeeded, Initialize
\* returned success, and finalization has not begun.
Ready == connected_ /\ pc \in {"ready", "encode", "decode", "exec_done"}

\* The Execute call has ended, by returning or by the death of the host.
ExecEnded == pc \in {"exec_done", "crashed"}

\* The loop over the responses has run for request k (to its end, or to
\* the point where the host died in it).
Decoded(k) ==
  /\ execStatus = "ok"
  /\ \/ pc = "exec_done"
     \/ pc = "decode" /\ k < r
     \/ pc = "crashed" /\ k <= r

\* The loop over the responses has run to its end for request k.
DecodedToEnd(k) ==
  /\ execStatus = "ok"
  /\ \/ pc = "exec_done"
     \/ pc \in {"decode", "crashed"} /\ k < r

\* A size of less than 2^31 - 1 bytes: the two high limbs are 0 and the low
\* ones make a number below 2147483647.
BelowLimit(size) ==
  /\ size[1] = 0
  /\ size[2] = 0
  /\ size[3] < 32768
  /\ size[3] * 65536 + size[4] < 2147483647

\* Request k's input is found and is below the size limit.
EncodesCleanly(k) ==
  /\ requests[k].lookup = "ok"
  /\ BelowLimit(requests[k].input_byte_size)

Oversize(k) ==
  /\ requests[k].lookup = "ok"
  /\ ~BelowLimit(requests[k].input_byte_size)

\* Request k is one nothing goes wrong for: its input encodes, the worker
\* returned a successful item for it with at least as many outputs as were
\* requested, and the host hands out CPU buffers.
CleanSuccess(k) ==
  /\ EncodesCleanly(k)
  /\ k <= Len(wireResp)
  /\ ~wireResp[k].failed
  /\ Len(wireResp[k].outputs) >= Len(requests[k].outs)
  /\ requests[k].gpu = {}

\* Request k was sent as a success with the first Len(outs) outputs of the
\* worker attached and filled.
SucceededWithOutputs(k) ==
  /\ sent[k] = <<Send("slot", "OK", <<>>)>>
  /\ Len(attached[k]) = Len(requests[k].outs)
  /\ \A j \in 1..Len(attached[k]) :
       /\ attached[k][j].name = wireResp[k].outputs[j].name
       /\ attached[k][j].data = wireResp[k].outputs[j].raw

\* Every final response sent for request k carries an error.
MarkedFailed(k) ==
  /\ sent[k] # <<>>
  /\ \A s \in 1..Len(sent[k]) : sent[k][s].code # "OK"

\* A GPU buffer was handed out for one of request k's outputs.
GpuHit(k) == \E j \in 1..Len(attached[k]) : attached[k][j].mem = "GPU"

TransportFailed == pc = "exec_done" /\ execStatus \notin {"none", "ok"}

(***************************************************************************)
(* C1: for every Execute call that completes its round trip, whatever the  *)
(* worker returned, no response position is read that does not exist, and  *)
(* when the call returns every request has an outcome, taken from the      *)
(* response at its own index.  The code reads responses(r) for every       *)
(* r < request_count without a look at how many the worker returned.       *)
(***************************************************************************)
C1_OutcomePerRequest ==
  /\ "responses_oob" \notin ubLog
  /\ (pc = "exec_done" /\ execStatus = "ok") =>
        \A k \in 1..Len(requests) :
          /\ sent[k] # <<>>
          /\ k <= Len(wireResp)
          /\ wireResp[k].failed => MarkedFailed(k)

(***************************************************************************)
(* C2, as stated: after a transport failure every request of the batch     *)
(* carries the one transport error and no output.                          *)
(***************************************************************************)
C2_AllCarryTransportError ==
  TransportFailed =>
    \A k \in 1..Len(requests) :
      /\ sent[k] = <<Send("slot", "INTERNAL", ErrTransport(execStatus))>>
      /\ attached[k] = <<>>

(***************************************************************************)
(* C2, amended: after a transport failure every request is marked failed   *)
(* and has no output; the requests whose input encoded carry exactly the   *)
(* one transport error, and the requests already answered while the batch  *)
(* was encoded keep that answer and are not sent the transport error.      *)
(***************************************************************************)
C2_TransportFailureFailsBatch ==
  TransportFailed =>
    \A k \in 1..Len(requests) :
      /\ attached[k] = <<>>
      /\ MarkedFailed(k)
      /\ responses[k] = "null"
      /\ IF EncodesCleanly(k)
         THEN sent[k] = <<Send("slot", "INTERNAL", ErrTransport(execStatus))>>
         ELSE \A s \in 1..Len(sent[k]) : sent[k][s].code # "INTERNAL"

\* A failed round trip on a batch of two, one request already answered.
C2_Witness ==
  /\ TransportFailed
  /\ Len(requests) = 2
  /\ EncodesCleanly(1)
  /\ Oversize(2)

(***************************************************************************)
(* C3: when the worker flags item i as failed, request i's one response    *)
(* is the worker's message, none of its outputs is handled, and every      *)
(* other request that nothing goes wrong for is sent as a success with its *)
(* outputs.                                                                *)
(***************************************************************************)
C3_WorkerFailureIsolated ==
  (ExecEnded /\ execStatus = "ok" /\ Len(wireResp) >= Len(requests)) =>
    \A k \in 1..Len(requests) :
      (wireResp[k].failed /\ Decoded(k)) =>
        /\ sent[k] = <<Send("slot", "INTERNAL", wireResp[k].msg)>>
        /\ attached[k] = <<>>
        /\ \A j \in 1..Len(requests) :
             (j # k /\ CleanSuccess(j)) => SucceededWithOutputs(j)

(***************************************************************************)
(* C4: a request with an input of MAX_GRPC_MESSAGE_SIZE bytes or more is   *)
(* answered with the unsupported-size error alone, the call goes on, the   *)
(* ExecuteRequest carries no tensor for the rejected input, and the        *)
(* requests of the batch that nothing goes wrong for are sent as successes *)
(* when the worker answers.                                                *)
(***************************************************************************)
C4_OversizeRejectedLocally ==
  \A k \in 1..Len(requests) :
    (Oversize(k) /\ (k < r \/ pc = "crashed")) =>
      /\ sent[k] = <<Send("slot", "UNSUPPORTED", ErrOversize)>>
      /\ pc # "crashed"
      /\ Len(wireReq) >= k => wireReq[k].input = "none"
      /\ (pc = "exec_done" /\ execStatus = "ok") =>
            \A j \in 1..Len(requests) :
              (j # k /\ CleanSuccess(j)) => SucceededWithOutputs(j)

(***************************************************************************)
(* C5: when the worker's successful item omits an output the request       *)
(* names, the request is still sent as a success and every requested       *)
(* output the worker did supply is attached with its bytes.                *)
(***************************************************************************)
WorkerNames(k) == {wireResp[k].outputs[j].name : j \in 1..Len(wireResp[k].outputs)}

RequestedNames(k) == {requests[k].outs[j] : j \in 1..Len(requests[k].outs)}

C5_OmittedOutputSkipped ==
  \A k \in 1..Len(requests) :
    ( /\ Decoded(k)
      /\ k <= Len(wireResp)
      /\ ~wireResp[k].failed
      /\ EncodesCleanly(k)
      /\ requests[k].gpu = {}
      /\ RequestedNames(k) \ WorkerNames(k) # {} ) =>
        /\ pc # "crashed"
        /\ "outputs_oob" \notin ubLog
        /\ sent[k] = <<Send("slot", "OK", <<>>)>>
        /\ \A n \in RequestedNames(k) \cap WorkerNames(k) :
             \E j \in 1..Len(attached[k]) :
               /\ attached[k][j].name = n
               /\ attached[k][j].data # <<>>

(***************************************************************************)
(* C6, as stated: when a GPU buffer is handed out for one output of a      *)
(* request that nothing else goes wrong for, the request's remaining       *)
(* outputs are still attached and the request is sent as a success.        *)
(***************************************************************************)
C6_GpuOutputOnlySkipped ==
  \A k \in 1..Len(requests) :
    ( /\ DecodedToEnd(k)
      /\ GpuHit(k)
      /\ Len(wireResp[k].outputs) >= Len(requests[k].outs) ) =>
        /\ sent[k] = <<Send("slot", "OK", <<>>)>>
        /\ Len(attached[k]) = Len(requests[k].outs)

(***************************************************************************)
(* C6, amended: when a GPU buffer is handed out for one output of a        *)
(* request, the request is failed: the unsupported error is its one final  *)
(* response, its slot is cleared, the rejected output is the last one      *)
(* attached and holds no bytes, and the request is not sent as a success.  *)
(* The other requests are not touched: each one that nothing goes wrong    *)
(* for is sent as a success with its outputs.                              *)
(***************************************************************************)
C6_GpuOutputFailsItem ==
  \A k \in 1..Len(requests) :
    GpuHit(k) =>
      /\ sent[k] = <<Send("slot", "UNSUPPORTED", ErrGpu)>>
      /\ responses[k] = "null"
      /\ attached[k][Len(attached[k])].mem = "GPU"
      /\ attached[k][Len(attached[k])].data = <<>>
      /\ \A j \in 1..Len(requests) :
           (j # k /\ CleanSuccess(j) /\ DecodedToEnd(j)) => SucceededWithOutputs(j)

\* A GPU buffer for the first of two outputs, beside a request that succeeds.
C6_Witness ==
  /\ pc = "exec_done"
  /\ Len(requests) = 2
  /\ GpuHit(1)
  /\ Len(requests[1].outs) = 2
  /\ Len(wireResp[1].outputs) = 2
  /\ Len(attached[1]) = 1
  /\ CleanSuccess(2)
  /\ SucceededWithOutputs(2)

(***************************************************************************)
(* C7: the handshake fails only after exactly 5 Init attempts, none of     *)
(* them acknowledged; the failure carries the message of the last attempt; *)
(* and the instance is not Ready then or after the failed Initialize.      *)
(***************************************************************************)
C7_ExhaustionAfterFiveAttempts ==
  /\ Len(initLog) <= 5
  /\ connRet \notin {"pending", "ok"} =>
        /\ Len(initLog) = 5
        /\ \A k \in 1..5 : initLog[k] # "ok"
        /\ connRet = initLog[5]
        /\ ~connected_
        /\ ~Ready
  /\ pc = "open_failed" => (openErr # "none" /\ ~connected_ /\ ~Ready)

\* Five failed attempts whose last message is not that of the one before.
C7_Witness ==
  /\ pc = "connect_ret"
  /\ connRet = "deadline"
  /\ Len(initLog) = 5
  /\ initLog[4] = "unavailable"

(***************************************************************************)
(* C8: the first acknowledged Init attempt is the last attempt made: the   *)
(* handshake returns success on it with connected_ set, and the next step  *)
(* of the host is Initialize returning success, which leaves the instance  *)
(* Ready.                                                                  *)
(***************************************************************************)
C8_FirstAckEndsHandshake ==
  /\ [](\A k \in 1..Len(initLog) :
          initLog[k] = "ok" =>
            /\ k = Len(initLog)
            /\ k <= 5
            /\ connected_
            /\ connRet = "ok"
            /\ pc = "connect_ret")
  /\ [][(pc = "connect_ret" /\ connRet = "ok" /\ pc' # pc) => (pc' = "ready" /\ Ready')]_vars

\* The worker acknowledges the third attempt.
C8_Witness ==
  /\ pc = "connect_ret"
  /\ Len(initLog) = 3
  /\ initLog[3] = "ok"
  /\ connected_

(***************************************************************************)
(* C9: when Initialize returns the handshake's failure, the child has been *)
(* ended and reaped and the socket file is gone.  The code returns the     *)
(* error (RETURN_IF_ERROR) and leaves the teardown to the destructor.      *)
(***************************************************************************)
C9_FailedOpenTearsDown ==
  (pc = "open_failed" /\ openErr \in InitErrors) =>
     /\ proc \in {"none", "reaped"}
     /\ ~socketFile

(***************************************************************************)
(* C10: when execvp fails, the child logs the diagnostic and ends; it is   *)
(* never a copy of the host that runs on.                                  *)
(***************************************************************************)
C10_ExecFailureEndsChild ==
  execFailed => (diagLogged /\ proc \in {"zombie", "reaped"})

(***************************************************************************)
(* C11: finalization of an instance that never became Ready (the handshake *)
(* was exhausted, or mkdtemp or fork failed) sends no Fini, is not cut     *)
(* short, and when it has ended no child of the instance is left alive or  *)
(* unreaped and the socket file is gone.                                   *)
(***************************************************************************)
ShutdownPcs == {"fini_rpc", "fin_wait", "closed", "killed"}

C11_ShutdownBeforeReady ==
  (pc \in ShutdownPcs /\ ~connected_) =>
    /\ finiSent = "none"
    /\ pc # "killed"
    /\ pc = "closed" => (proc \in {"none", "reaped"} /\ ~socketFile)

(***************************************************************************)
(* C12: once the destructor has started, it reaches its end, whether the   *)
(* worker acknowledges Fini, answers it with an error, has exited, or does *)
(* not answer at all.                                                      *)
(***************************************************************************)
C12_ShutdownReachesClosed ==
  (pc \in {"fini_rpc", "fin_wait"}) ~> (pc = "closed")

(***************************************************************************)
(* C13: a failed Execute round trip changes nothing of the instance: it is *)
(* Ready as before, with the same stub, socket address and child, nothing  *)
(* signalled and no Fini sent; the step that fails changes no field of the *)
(* instance and nothing of the child; Execute returns to the host with the *)
(* instance Ready; and every Execute call that has built its               *)
(* ExecuteRequest can issue the round trip, whatever went before.          *)
(***************************************************************************)
C13_TransportFailureKeepsInstance ==
  /\ [](TransportFailed =>
          /\ Ready
          /\ stub = "open"
          /\ interpreter_pid_ = PidChild
          /\ domain_socket_ # ""
          /\ finiSent = "none"
          /\ signalled = {})
  /\ [][(execStatus = "none" /\ execStatus' \notin {"none", "ok"}) =>
          UNCHANGED <<instVars, osVars, finVars>>]_vars
  /\ [][(TransportFailed /\ pc' # pc) =>
          (pc' = "ready" /\ connected_' /\ UNCHANGED instVars)]_vars
  /\ []((pc = "encode" /\ r > Len(requests)) => ENABLED ExecuteRpc)

\* A failed round trip on a batch of one healthy request.
C13_Witness ==
  /\ TransportFailed
  /\ Len(requests) = 1
  /\ EncodesCleanly(1)
  /\ connected_
  /\ stub = "open"

(***************************************************************************)
(* C14: connected_ is set only by an acknowledged Init; the host is in     *)
(* Execute, and the Execute RPC has been issued, only with the instance    *)
(* Ready; and once the destructor has started the instance is never Ready  *)
(* again.                                                                  *)
(***************************************************************************)
C14_ReadyOnlyAfterAck ==
  /\ [](pc \in {"ready", "encode", "decode", "exec_done"} => connected_)
  /\ [](execStatus # "none" => (connected_ /\ pc \in {"decode", "exec_done", "crashed"}))
  /\ [][(~connected_ /\ connected_') =>
          (status' = "ok" /\ initLog' # <<>> /\ initLog'[Len(initLog')] = "ok")]_vars
  /\ [][(pc \in ShutdownPcs) => (pc' \in ShutdownPcs /\ ~Ready')]_vars

\* An instance that was Ready and has been finalized.
C14_Witness ==
  /\ pc = "closed"
  /\ connected_
  /\ finiSent \in {"ok", "error"}

(***************************************************************************)
(* C15: when the destructor has ended, neither the socket file nor the     *)
(* directory mkdtemp created for it exists.                                *)
(***************************************************************************)
C15_AddressRemoved ==
  pc = "closed" => (~socketFile /\ ~tmpDir)

C17_ExactlyOneFinalResponse ==
  /\ "null_send" \notin ubLog
  /\ \A k \in 1..Len(requests) : Len(sent[k]) <= 1
  /\ ExecEnded => \A k \in 1..Len(requests) : Len(sent[k]) = 1

(***************************************************************************)
(* C18: the destructor signals the child this instance forked and nothing  *)
(* else, also when mkdtemp failed (interpreter_pid_ never assigned) or     *)
(* fork failed (interpreter_pid_ = -1).                                    *)
(***************************************************************************)
C18_SignalsOnlyOwnWorker ==
  signalled \subseteq {"child"}

(***************************************************************************)
(* C19: when request k fails while the ExecuteRequest is built, every      *)
(* other request j whose own input encodes is handled as if k had encoded: *)
(* the call is not cut short while the batch is encoded, j's slot is not   *)
(* touched before the round trip, and if nothing goes wrong for j it is    *)
(* sent as a success with its outputs.                                     *)
(***************************************************************************)
C19_EncodeFailureContained ==
  \A k, j \in 1..Len(requests) :
    (k # j /\ ~EncodesCleanly(k) /\ EncodesCleanly(j)) =>
      /\ ~(pc = "crashed" /\ execStatus = "none")
      /\ execStatus = "none" => (responses[j] = "open" /\ sent[j] = <<>>)
      /\ (pc = "exec_done" /\ execStatus = "ok" /\ CleanSuccess(j)) =>
            SucceededWithOutputs(j)

(***************************************************************************)
(* C20: for a successful item whose outputs are the requested names in     *)
(* another order, every requested name n has exactly one host output, and  *)
(* it carries the element type, the shape and the bytes of the worker's    *)
(* tensor named n.                                                         *)
(***************************************************************************)
Reordered(k) ==
  /\ k <= Len(wireResp)
  /\ ~wireResp[k].failed
  /\ Len(wireResp[k].outputs) = Len(requests[k].outs)
  /\ WorkerNames(k) = RequestedNames(k)
  /\ \E j \in 1..Len(requests[k].outs) :
       wireResp[k].outputs[j].name # requests[k].outs[j]

C20_OutputsResolvedByName ==
  \A k \in 1..Len(requests) :
    (DecodedToEnd(k) /\ CleanSuccess(k) /\ Reordered(k)) =>
      /\ sent[k] = <<Send("slot", "OK", <<>>)>>
      /\ \A n \in RequestedNames(k) :
           \E j \in 1..Len(attached[k]) :
             /\ attached[k][j].name = n
             /\ \A j2 \in 1..Len(attached[k]) : attached[k][j2].name = n => j2 = j
             /\ \E w \in 1..Len(wireResp[k].outputs) :
                  /\ wireResp[k].outputs[w].name = n
                  /\ attached[k][j].dtype = wireResp[k].outputs[w].dtype
                  /\ attached[k][j].dims = wireResp[k].outputs[w].dims
                  /\ attached[k][j].data = wireResp[k].outputs[w].raw

\* The worker returned b, a for the requested a, b.
C20_Witness ==
  /\ pc = "exec_done"
  /\ Len(requests) >= 1
  /\ CleanSuccess(1)
  /\ Reordered(1)
  /\ requests[1].outs = <<"a", "b">>
  /\ wireResp[1].outputs[1].name = "b"
  /\ Len(attached[1]) = 2

(***************************************************************************)
(* C25: the input of a request is rejected exactly when its size is not    *)
(* below 2^31 - 1, for every 64-bit size: 2^31 - 1 itself is rejected,     *)
(* 2^31 - 2 is accepted, and no size of 2^31 or more (2^32, 2^63, ...) is  *)
(* accepted.  A rejected input is answered with the unsupported-size error *)
(* and not filled in; an accepted one is filled in and not answered.       *)
(***************************************************************************)
C25_SizeCheckBoundary ==
  \A k \in 1..Len(requests) :
    ( /\ requests[k].lookup = "ok"
      /\ execStatus = "none"
      /\ k < r \/ (pc = "crashed" /\ k = r) ) =>
      IF BelowLimit(requests[k].input_byte_size)
      THEN /\ sent[k] = <<>>
           /\ responses[k] = "open"
           /\ wireReq[k].input = "filled"
      ELSE /\ sent[k] = <<Send("slot", "UNSUPPORTED", ErrOversize)>>
           /\ responses[k] = "null"
           /\ Len(wireReq) >= k => wireReq[k].input = "empty"

\* An input of 2^32 + 1 bytes has been rejected.
C25_Witness ==
  /\ Len(requests) = 1
  /\ requests[1].input_byte_size = <<0, 1, 0, 1>>
  /\ sent[1] = <<Send("slot", "UNSUPPORTED", ErrOversize)>>

(***************************************************************************)
(* C21: for an item the worker returned as a success with at least as many *)
(* tensors as were requested, every output attached to the request's       *)
(* response has one of the requested names, and no two have the same name. *)
(***************************************************************************)
C21_OnlyRequestedNamesAttached ==
  \A k \in 1..Len(requests) :
    ( /\ execStatus = "ok"
      /\ k <= Len(wireResp)
      /\ ~wireResp[k].failed
      /\ Len(wireResp[k].outputs) >= Len(requests[k].outs) ) =>
        \A j \in 1..Len(attached[k]) :
          /\ attached[k][j].name \in RequestedNames(k)
          /\ \A j2 \in 1..Len(attached[k]) :
               attached[k][j2].name = attached[k][j].name => j2 = j

(***************************************************************************)
(* C22: the bytes copied into the buffer of an output are never more than  *)
(* the size the buffer was asked with: the length of raw_data for BYTES,   *)
(* GetByteSize of the type and shape for every other type.                 *)
(***************************************************************************)
C22_CopyFitsBuffer ==
  /\ "copy_overflow" \notin ubLog
  /\ \A k \in 1..Len(requests) : \A j \in 1..Len(attached[k]) :
       Len(attached[k][j].data) <= attached[k][j].size

(***************************************************************************)
(* C23: the destructor's steps come in one order.  Fini is sent only when  *)
(* the handshake had succeeded, and before anything else: while it is      *)
(* awaited the stub is held, nothing is signalled, and the socket file is  *)
(* untouched.  A signal is sent only with the stub reset and the Fini call *)
(* over.  The socket file is removed only by the step that ends the wait   *)
(* for the child, which leaves a child of the instance reaped.  A Fini     *)
(* that fails is followed by the reset and the signal all the same, and    *)
(* when the destructor has ended the stub is reset, a signal was sent and  *)
(* the socket file is gone.                                                *)
(***************************************************************************)
C23_ShutdownOrder ==
  /\ [](finiSent # "none" => connected_)
  /\ [](pc = "fini_rpc" => (finiSent = "pending" /\ stub = "open" /\ signalled = {}))
  /\ [](signalled # {} => (stub = "reset" /\ finiSent # "pending"))
  /\ [](pc = "fin_wait" => (stub = "reset" /\ signalled # {} /\ proc # "reaped"))
  /\ [][(pc = "fini_rpc" /\ pc' # pc) =>
          (finiSent' \in {"ok", "error"} /\ stub' = "reset" /\ signalled' # {}
           /\ pc' \in {"fin_wait", "killed"} /\ socketFile' = socketFile)]_vars
  /\ [][(socketFile /\ ~socketFile') =>
          (pc = "fin_wait" /\ pc' = "closed"
           /\ (interpreter_pid_ = PidChild => proc' = "reaped"))]_vars
  /\ [](pc = "closed" =>
          (stub = "reset" /\ signalled # {} /\ ~socketFile
           /\ (connected_ => finiSent \in {"ok", "error"})))

\* The destructor has ended after a Fini that failed.
C23_Witness ==
  /\ pc = "closed"
  /\ finiSent = "error"
  /\ stub = "reset"
  /\ signalled = {"child"}
  /\ proc = "reaped"
  /\ ~socketFile

(***************************************************************************)
(* C24: one sleep follows every failed Init attempt, the last one too: a   *)
(* handshake that fails has made 5 attempts and slept 5 times, and one     *)
(* that succeeds on attempt k has slept k - 1 times.                       *)
(***************************************************************************)
FailedAttempts == {k \in 1..Len(initLog) : initLog[k] # "ok"}

C24_DelayAfterEveryFailure ==
  /\ pc \in {"connect", "connect_ret"} => sleeps = Cardinality(FailedAttempts)
  /\ (pc = "connect_ret" /\ connRet = "ok") =>
        (initLog[Len(initLog)] = "ok" /\ sleeps = Len(initLog) - 1)
  /\ (pc = "connect_ret" /\ connRet # "ok") =>
        (Len(initLog) = 5 /\ sleeps = 5)

\* The handshake has failed after five attempts and five sleeps.
C24_Witness ==
  /\ pc = "connect_ret"
  /\ connRet = "unavailable"
  /\ Len(initLog) = 5
  /\ sleeps = 5

(***************************************************************************)
(* C26: when mkdtemp or fork fails, Initialize returns an error, the       *)
(* instance is never Ready, and nothing made for the instance is left: no  *)
(* directory, no socket file, no stub.                                     *)
(***************************************************************************)
SpawnFailed == openErr = TmpDirError \/ interpreter_pid_ = PidForkFailed

C26_SpawnFailureReleasesAll ==
  /\ SpawnFailed => (~connected_ /\ ~Ready /\ pc \notin {"ready", "encode", "decode", "exec_done"})
  /\ (SpawnFailed /\ pc = "open_failed") =>
        (openErr # "none" /\ ~tmpDir /\ ~socketFile /\ stub # "open")

(***************************************************************************)
(* C27: when Execute returns, every request of the batch has been released *)
(* once and had its statistics reported once, after a failed round trip    *)
(* and after a completed one, with success reported exactly for the        *)
(* requests whose final response was sent without an error.                *)
(***************************************************************************)
SentOk(k) == \E n \in 1..Len(sent[k]) : sent[k][n].code = "OK"

C27_StatsAndReleaseOnce ==
  /\ \A k \in 1..Len(requests) : (released[k] <= 1 /\ Len(stats[k]) <= 1)
  /\ pc = "exec_done" =>
       \A k \in 1..Len(requests) :
         /\ released[k] = 1
         /\ Len(stats[k]) = 1
         /\ stats[k][1] = SentOk(k)
         /\ execStatus # "ok" => ~stats[k][1]

\* A completed round trip on a batch of two, one success and one failure.
C27_Witness ==
  /\ pc = "exec_done"
  /\ execStatus = "ok"
  /\ Len(requests) = 2
  /\ SentOk(1)
  /\ stats[1] = <<TRUE>>
  /\ Len(wireResp) = 2
  /\ wireResp[2].failed
  /\ stats[2] = <<FALSE>>
  /\ released = <<1, 1>>

=============================================================================
